---- MODULE Spec2Model ----
(***************************************************************************)
(* The resource dependency-graph evaluator of                              *)
(* metalearn/metafeatures/metafeatures.py (class Metafeatures): argument   *)
(* validation, target gating, and the memoizing resolver _get_resource /   *)
(* _get_parameters with its seed offset, run against one Metafeatures      *)
(* object across several compute calls.                                    *)
(***************************************************************************)
EXTENDS Integers, Sequences, FiniteSets, TLC

(***************************************************************************)
(* Bounds of the model.                                                    *)
(***************************************************************************)
\* longest metafeature_ids list a caller passes
MaxIds == 2
\* compute calls made on the one Metafeatures object
MaxCalls == 3

(***************************************************************************)
(* Values.  Every Python value the evaluator handles is an integer here:   *)
(* computed values and times are >= 0, the markers are negative.           *)
(***************************************************************************)
\* np.nan, the uncomputable marker (compared with `is`)
NaN == -1
\* Python None
None == -2
\* an attribute that was never assigned (reading it raises AttributeError)
Unset == -3

\* Metafeatures.NO_TARGETS / NUMERIC_TARGETS, the gating sentinels
NO_TARGETS == -4
NUMERIC_TARGETS == -5

NUMERIC == "NUMERIC"
CATEGORICAL == "CATEGORICAL"
VALUE_KEY == "value"
COMPUTE_TIME_KEY == "compute_time"

Entry(v, t) == [value |-> v, compute_time |-> t]

\* end - start of a producing-function call: the wall-clock durations a
\* compute call can measure (one per compute call, see elapsed below)
ElapsedTimes == {1, 2}
\* what np.random.randint(2**32) can return when no seed is given
RandomSeeds == {40, 50}

(***************************************************************************)
(* The registry: Metafeatures._metadata as loaded from the JSON table.     *)
(* A parameter is a resource name or a numeric literal.                    *)
(***************************************************************************)
P(n) == [lit |-> FALSE, name |-> n, val |-> 0]
L(v) == [lit |-> TRUE, name |-> "", val |-> v]

\* one table entry; keys is the set of keys the JSON object holds
Info(f, keys, ps, rs, off) ==
    [function |-> f, keys |-> keys, parameters |-> ps, returns |-> rs,
     seed_offset |-> off]

\* _metadata["functions"].  Two entries are malformed: no_such_function
\* names no function, and split_pair declares two outputs but the function
\* returns one.  cycle_a and cycle_b take each other's output as parameter.
\* summarize declares NumberOfInstances, an output of get_stats, as its own.
\* quantile takes a numeric literal and width an input, each after XSample.
functions ==
    [f \in {"self._get_seed", "sample_rows", "preprocess", "get_stats",
            "run_pipeline", "no_such_function", "split_pair", "cycle_a",
            "cycle_b", "summarize", "quantile", "width", "ratio"} |->
       CASE f = "self._get_seed" ->
              Info(f, {"parameters", "returns"}, <<>>, <<"seed">>, Unset)
         [] f = "sample_rows" ->
              Info(f, {"parameters", "returns", "seed_offset"},
                   <<P("Y"), P("X"), P("sample_shape"), P("n_folds"), P("seed")>>,
                   <<"XSample", "YSample">>, 1)
         [] f = "preprocess" ->
              Info(f, {"parameters", "returns", "seed_offset"},
                   <<P("XSample"), P("seed")>>, <<"XPreprocessed">>, 3)
         [] f = "get_stats" ->
              Info(f, {"parameters", "returns"},
                   <<P("XSample")>>,
                   <<"NumberOfInstances", "NumberOfFeatures">>, Unset)
         [] f = "run_pipeline" ->
              Info(f, {"parameters"},
                   <<P("XPreprocessed"), P("YSample"), L(3), P("seed")>>,
                   <<>>, Unset)
         [] f = "no_such_function" ->
              Info(f, {"parameters", "returns"}, <<P("XSample")>>,
                   <<"Orphan">>, Unset)
         [] f = "split_pair" ->
              Info(f, {"parameters", "returns"}, <<P("XSample")>>,
                   <<"PairA", "PairB">>, Unset)
         [] f = "cycle_a" ->
              Info(f, {"parameters", "returns"}, <<P("Y"), P("CycleB")>>,
                   <<"CycleA">>, Unset)
         [] f = "cycle_b" ->
              Info(f, {"parameters", "returns"}, <<P("CycleA")>>,
                   <<"CycleB">>, Unset)
         [] f = "summarize" ->
              Info(f, {"parameters", "returns"}, <<P("XSample"), P("seed")>>,
                   <<"NumberOfInstances", "Summary">>, Unset)
         [] f = "quantile" ->
              Info(f, {"parameters", "returns"}, <<P("XSample"), L(2)>>,
                   <<"Quantile">>, Unset)
         [] f = "width" ->
              Info(f, {"parameters", "returns"}, <<P("XSample"), P("X")>>,
                   <<"Width">>, Unset)
         [] f = "ratio" ->
              Info(f, {"parameters", "returns"},
                   <<P("NumberOfFeatures"), P("XPreprocessed")>>,
                   <<"Ratio">>, Unset)]

\* the function ids eval(f) finds a function for
Callable == DOMAIN functions \ {"no_such_function"}

\* _metadata["resources"]: intermediate resources
resources_table ==
    [n \in {"seed", "XSample", "YSample", "XPreprocessed", "Orphan", "PairA",
            "PairB", "CycleA", "CycleB", "Summary", "Quantile", "Width",
            "Ratio"} |->
       CASE n = "seed" -> Info("self._get_seed", {}, <<>>, <<>>, Unset)
         [] n = "Ratio" -> Info("ratio", {}, <<>>, <<>>, Unset)
         [] n = "Quantile" -> Info("quantile", {}, <<>>, <<>>, Unset)
         [] n = "Width" -> Info("width", {}, <<>>, <<>>, Unset)
         [] n = "Summary" -> Info("summarize", {}, <<>>, <<>>, Unset)
         [] n = "CycleA" -> Info("cycle_a", {}, <<>>, <<>>, Unset)
         [] n = "CycleB" -> Info("cycle_b", {}, <<>>, <<>>, Unset)
         [] n = "Orphan" -> Info("no_such_function", {}, <<>>, <<>>, Unset)
         [] n \in {"PairA", "PairB"} -> Info("split_pair", {}, <<>>, <<>>, Unset)
         [] n \in {"XSample", "YSample"} -> Info("sample_rows", {}, <<>>, <<>>, Unset)
         [] n = "XPreprocessed" -> Info("preprocess", {}, <<>>, <<>>, Unset)]

\* _metadata["metafeatures"], in the table's key order
IDS == <<"NumberOfInstances", "NumberOfFeatures", "NumberOfClasses",
         "NaiveBayesErrRate", "NaiveBayesKappa">>

metafeatures_table ==
    [n \in {IDS[k] : k \in 1..Len(IDS)} |->
       CASE n \in {"NumberOfInstances", "NumberOfFeatures"} ->
              Info("get_stats", {}, <<>>, <<>>, Unset)
         [] n = "NumberOfClasses" ->
              Info("get_stats", {"parameters", "returns"},
                   <<P("YSample")>>, <<"NumberOfClasses">>, Unset)
         [] n \in {"NaiveBayesErrRate", "NaiveBayesKappa"} ->
              Info("run_pipeline", {"returns", "seed_offset"}, <<>>,
                   <<"NaiveBayesErrRate", "NaiveBayesKappa">>, 2)]

\* _resource_info: resources updated with metafeatures
resource_info == metafeatures_table @@ resources_table

Names == DOMAIN resource_info

\* the six resources _init_resources puts into the cache
InputNames == {"XRaw", "X", "Y", "ColumnTypes", "sample_shape", "n_folds"}

Range(s) == {s[k] : k \in 1..Len(s)}

\* 'returns' if the resource declares it, else its function's
ReturnsOf(r) ==
    IF "returns" \in resource_info[r].keys
    THEN resource_info[r].returns
    ELSE functions[resource_info[r].function].returns

\* 'parameters' if the resource declares it, else its function's
ParametersOf(r) ==
    IF "parameters" \in resource_info[r].keys
    THEN resource_info[r].parameters
    ELSE functions[resource_info[r].function].parameters

\* the seed offset _get_parameters assigns for r; Unset when neither the
\* resource nor its function declares one (the attribute is left alone)
\* how many results the function of r returns when called for r
Produces(r) ==
    IF resource_info[r].function = "split_pair" THEN 1 ELSE Len(ReturnsOf(r))

\* the entry of r names a function and declares as many outputs as the
\* function returns
WellFormedEntry(r) ==
    /\ resource_info[r].function \in Callable
    /\ Produces(r) = Len(ReturnsOf(r))

DeclaredOffset(r) ==
    IF "seed_offset" \in resource_info[r].keys
    THEN resource_info[r].seed_offset
    ELSE IF "seed_offset" \in functions[resource_info[r].function].keys
         THEN functions[resource_info[r].function].seed_offset
         ELSE Unset

(***************************************************************************)
(* Target-Dependence Analyzer: Metafeatures._is_target_dependent.          *)
(* The result is "T" or "F", or the exception the recursion raises:        *)
(* "KeyError" when a parameter is no key of _resource_info (a numeric      *)
(* literal is none), "RecursionError" when the recursion does not end.     *)
(***************************************************************************)
RECURSIVE TargetDependent(_, _), ScanParameters(_, _, _)

\* the `for parameter in parameters` loops: the first True returns True, an
\* exception propagates, False goes on to the next parameter
ScanParameters(ps, k, depth) ==
    IF k > Len(ps) THEN "F"
    ELSE LET r == TargetDependent(ps[k], depth)
         IN  IF r = "F" THEN ScanParameters(ps, k + 1, depth) ELSE r

\* faulty variant: only the function's parameter list is scanned, the
\* resource's own list is not
TargetDependentFunctionOnly(p, depth) ==
    IF depth = 0 THEN "RecursionError"
    ELSE IF p.lit THEN "KeyError"
    ELSE IF p.name = "Y" THEN "T"
    ELSE IF p.name = "XSample" THEN "F"
    ELSE IF p.name \notin Names THEN "KeyError"
    ELSE ScanParameters(functions[resource_info[p.name].function].parameters,
                        1, depth - 1)

\* faulty variant: XSample is not special-cased, so it is followed to Y
TargetDependentThroughXSample(p, depth) ==
    IF depth = 0 THEN "RecursionError"
    ELSE IF p.lit THEN "KeyError"
    ELSE IF p.name = "Y" THEN "T"
    ELSE IF p.name \notin Names THEN "KeyError"
    ELSE LET info == resource_info[p.name]
             own  == IF "parameters" \in info.keys THEN info.parameters ELSE <<>>
             r1   == ScanParameters(own, 1, depth - 1)
         IN  IF r1 # "F" THEN r1
             ELSE ScanParameters(functions[info.function].parameters, 1, depth - 1)

TargetDependent(p, depth) ==
    IF depth = 0 THEN "RecursionError"
    ELSE IF p.lit THEN "KeyError"
    ELSE IF p.name = "Y" THEN "T"
    ELSE IF p.name = "XSample" THEN "F"
    ELSE IF p.name \notin Names THEN "KeyError"
    ELSE LET info == resource_info[p.name]
             own  == IF "parameters" \in info.keys THEN info.parameters ELSE <<>>
             r1   == ScanParameters(own, 1, depth - 1)
         IN  IF r1 # "F" THEN r1
             ELSE ScanParameters(functions[info.function].parameters, 1, depth - 1)

\* the analyzer's answer for every registry entry (it reads the registry
\* only, so the answer for a name never changes)
TargetDependence ==
    [r \in Names |-> TargetDependent(P(r), Cardinality(Names) + 2)]

is_target_dependent(resource_name) ==
    IF resource_name \in Names
    THEN TargetDependence[resource_name]
    ELSE TargetDependent(P(resource_name), Cardinality(Names) + 2)

\* list_metafeatures(group="landmarking"): ids containing ErrRate or Kappa
HasErrRateOrKappa(mf_id) ==
    mf_id \in {"NaiveBayesErrRate", "NaiveBayesKappa"}

landmarking_mfs == {n \in Range(IDS) : HasErrRateOrKappa(n)}

\* list_metafeatures(group="target_dependent"): filter over IDS
target_dependent_mfs ==
    SelectSeq(IDS, LAMBDA mf_id : is_target_dependent(mf_id) = "T")

(***************************************************************************)
(* The arguments of compute.                                               *)
(*   X: "DataFrame*" is a pandas.DataFrame with columns f1 (numeric) and   *)
(*      f2 (object dtype); "ndarray" is not a DataFrame.                   *)
(*   Y: "None", "ndarray" (not a Series), or a Series named target:        *)
(*      "Cat" (classes of 3 and 3 rows), "CatSmall" (1 and 3 rows),        *)
(*      "Num" (numeric dtype, three values of 2 rows), "NumCont" (numeric  *)
(*      dtype, three rows, every value different).                         *)
(*   column_types, metafeature_ids: given or None.                         *)
(*   sample_shape: kind "None", "tuple" (v its items, None allowed) or     *)
(*      "other" (neither tuple nor list).                                  *)
(*   n_folds: a number in tenths (20 is 2, 25 is 2.5) or not a number.     *)
(***************************************************************************)
XColumns == {"f1", "f2"}
YName == "target"

IsDataFrame(X) == X # "ndarray"
IsSeries(Y) == Y \in {"Cat", "CatSmall", "Num", "NumCont"}

\* sizes of the groups of Y.groupby(Y), in group order
YGroups(Y) ==
    CASE Y = "Cat" -> <<3, 3>>
      [] Y = "CatSmall" -> <<1, 3>>
      [] Y = "Num" -> <<2, 2, 2>>
      [] Y = "NumCont" -> <<1, 1, 1>>
      [] OTHER -> <<>>

\* the labels of the groups of Y.groupby(Y), in group order
YClasses(Y) ==
    CASE Y = "Cat" -> <<"a", "b">>
      [] Y = "CatSmall" -> <<"a", "b">>
      [] Y = "Num" -> <<"1.0", "2.0", "3.0">>
      [] Y = "NumCont" -> <<"0.1", "0.2", "0.3">>
      [] OTHER -> <<>>

\* dtype_is_numeric of a column's dtype
ColumnIsNumeric(col) == col = "f1"
YIsNumeric(Y) == Y \in {"Num", "NumCont"}

NoErr == [type |-> "", msg |-> "", names |-> <<>>]
Err(t, m, ns) == [type |-> t, msg |-> m, names |-> ns]

validate_X(a) ==
    IF ~IsDataFrame(a.X)
    THEN Err("TypeError", "X must be of type pandas.DataFrame", <<>>)
    ELSE NoErr

validate_Y(a) ==
    IF ~IsSeries(a.Y) /\ a.Y # "None"
    THEN Err("TypeError", "Y must be of type pandas.Series", <<>>)
    ELSE NoErr

validate_column_types(a) ==
    IF ~a.column_types.given THEN NoErr
    ELSE LET m == a.column_types.map
             n == Cardinality(DOMAIN m)
         IN  IF a.Y = "None" /\ n # Cardinality(XColumns)
             THEN Err("ValueError",
                      "The number of column_types does not match the number of features",
                      <<>>)
             ELSE IF a.Y # "None" /\ n # Cardinality(XColumns) + 1
             THEN Err("ValueError",
                      "The number of column_types does not match the number of features plus the target",
                      <<>>)
             ELSE IF \E c \in DOMAIN m : m[c] # NUMERIC /\ m[c] # CATEGORICAL
             THEN Err("ValueError", "One or more input column types are not valid:", <<>>)
             ELSE NoErr

\* faulty variant: reports only the first invalid id
validate_metafeature_ids_first(a) ==
    IF ~a.metafeature_ids.given THEN NoErr
    ELSE LET invalid == SelectSeq(a.metafeature_ids.ids,
                                  LAMBDA mf : mf \notin DOMAIN resource_info)
         IN  IF Len(invalid) > 0
             THEN Err("ValueError",
                      "One or more requested metafeatures are not valid:",
                      <<invalid[1]>>)
             ELSE NoErr

\* the list comprehension keeps the invalid ids in request order
validate_metafeature_ids(a) ==
    IF ~a.metafeature_ids.given THEN NoErr
    ELSE LET invalid == SelectSeq(a.metafeature_ids.ids,
                                  LAMBDA mf : mf \notin DOMAIN resource_info)
         IN  IF Len(invalid) > 0
             THEN Err("ValueError",
                      "One or more requested metafeatures are not valid:", invalid)
             ELSE NoErr

\* faulty variant: the row bound is compared with the number of classes,
\* not with classes times n_folds
validate_sample_shape_classes_only(a) ==
    LET s == a.sample_shape
    IN  IF s.kind = "None" THEN NoErr
        ELSE IF s.kind = "other"
        THEN Err("ValueError", "sample_shape must be of type tuple or list", <<>>)
        ELSE IF Len(s.v) # 2
        THEN Err("ValueError", "sample_shape must be of length 2", <<>>)
        ELSE IF s.v[1] # None /\ s.v[1] < 1
        THEN Err("ValueError", "Cannot sample less than one row", <<>>)
        ELSE IF s.v[2] # None /\ s.v[2] < 1
        THEN Err("ValueError", "Cannot sample less than 1 column", <<>>)
        ELSE IF s.v[1] # None /\ a.Y # "None"
             /\ s.v[1] < Len(YGroups(a.Y))
        THEN Err("ValueError", "Cannot sample less than min_samples rows from Y", <<>>)
        ELSE NoErr

validate_sample_shape(a) ==
    LET s == a.sample_shape
    IN  IF s.kind = "None" THEN NoErr
        ELSE IF s.kind = "other"
        THEN Err("ValueError", "sample_shape must be of type tuple or list", <<>>)
        ELSE IF Len(s.v) # 2
        THEN Err("ValueError", "sample_shape must be of length 2", <<>>)
        ELSE IF s.v[1] # None /\ s.v[1] < 1
        THEN Err("ValueError", "Cannot sample less than one row", <<>>)
        ELSE IF s.v[2] # None /\ s.v[2] < 1
        THEN Err("ValueError", "Cannot sample less than 1 column", <<>>)
        ELSE IF s.v[1] # None /\ a.Y # "None"
             /\ ~a.n_folds.numeric
        THEN Err("TypeError", "unorderable types: int < str", <<>>)
        ELSE IF s.v[1] # None /\ a.Y # "None"
             /\ s.v[1] * 10 < Len(YGroups(a.Y)) * a.n_folds.tenths
        THEN Err("ValueError", "Cannot sample less than min_samples rows from Y", <<>>)
        ELSE NoErr

RECURSIVE FirstSmallGroup(_, _, _)
\* the first group of Y with fewer than n_folds rows (0 when there is none)
FirstSmallGroup(groups, k, tenths) ==
    IF k > Len(groups) THEN 0
    ELSE IF groups[k] * 10 < tenths THEN k
    ELSE FirstSmallGroup(groups, k + 1, tenths)

\* faulty variant: the class sizes are checked whatever names are requested
validate_n_folds_any_id(a) ==
    IF ~a.n_folds.numeric \/ a.n_folds.tenths % 10 # 0
    THEN Err("ValueError", "n_folds must be an integer", <<>>)
    ELSE IF a.n_folds.tenths < 20
    THEN Err("ValueError", "n_folds must be >= 2", <<>>)
    ELSE IF a.Y # "None" /\ a.metafeature_ids.given
            /\ FirstSmallGroup(YGroups(a.Y), 1, a.n_folds.tenths) # 0
    THEN Err("ValueError",
             "The minimum number of instances in each class of Y is n_folds",
             <<YClasses(a.Y)[FirstSmallGroup(YGroups(a.Y), 1, a.n_folds.tenths)]>>)
    ELSE NoErr

validate_n_folds(a) ==
    IF ~a.n_folds.numeric \/ a.n_folds.tenths % 10 # 0
    THEN Err("ValueError", "n_folds must be an integer", <<>>)
    ELSE IF a.n_folds.tenths < 20
    THEN Err("ValueError", "n_folds must be >= 2", <<>>)
    ELSE IF a.Y # "None" /\ a.metafeature_ids.given
            /\ \E k \in 1..Len(a.metafeature_ids.ids) :
                   a.metafeature_ids.ids[k] \in landmarking_mfs
            /\ FirstSmallGroup(YGroups(a.Y), 1, a.n_folds.tenths) # 0
    THEN Err("ValueError",
             "The minimum number of instances in each class of Y is n_folds",
             <<YClasses(a.Y)[FirstSmallGroup(YGroups(a.Y), 1, a.n_folds.tenths)]>>)
    ELSE NoErr

\* faulty variant: _validate_Y stands before _validate_X in the list
validate_compute_arguments_Y_first(a) ==
    IF validate_Y(a) # NoErr THEN validate_Y(a)
    ELSE IF validate_X(a) # NoErr THEN validate_X(a)
    ELSE IF validate_column_types(a) # NoErr THEN validate_column_types(a)
    ELSE IF validate_metafeature_ids(a) # NoErr THEN validate_metafeature_ids(a)
    ELSE IF validate_sample_shape(a) # NoErr THEN validate_sample_shape(a)
    ELSE validate_n_folds(a)

\* the six validators in the order of the list; the first that raises ends
\* the pass
validate_compute_arguments(a) ==
    IF validate_X(a) # NoErr THEN validate_X(a)
    ELSE IF validate_Y(a) # NoErr THEN validate_Y(a)
    ELSE IF validate_column_types(a) # NoErr THEN validate_column_types(a)
    ELSE IF validate_metafeature_ids(a) # NoErr THEN validate_metafeature_ids(a)
    ELSE IF validate_sample_shape(a) # NoErr THEN validate_sample_shape(a)
    ELSE validate_n_folds(a)

infer_column_types(X, Y) ==
    [c \in XColumns \cup (IF Y = "None" THEN {} ELSE {YName}) |->
        IF c = YName
        THEN (IF YIsNumeric(Y) THEN NUMERIC ELSE CATEGORICAL)
        ELSE (IF ColumnIsNumeric(c) THEN NUMERIC ELSE CATEGORICAL)]

\* compute, lines 103-108: the defaults filled in between the two passes
WithDefaults(a) ==
    [a EXCEPT
       !.column_types = IF a.column_types.given THEN @
                        ELSE [given |-> TRUE, map |-> infer_column_types(a.X, a.Y)],
       !.metafeature_ids = IF a.metafeature_ids.given THEN @
                           ELSE [given |-> TRUE, ids |-> IDS],
       !.sample_shape = IF a.sample_shape.kind = "None"
                        THEN [kind |-> "tuple", v |-> <<None, None>>] ELSE @]

(***************************************************************************)
(* Producing functions.  They are external collaborators: each is a        *)
(* deterministic function of its arguments.  On the datasets               *)
(* "DataFrameNaN" and "DataFrameFlat" the functions below return np.nan    *)
(* for the outputs in NanOutputs; on "DataFrameRaise" one of them raises.  *)
(***************************************************************************)
NanOutputs(X) ==
    IF X = "DataFrameNaN" THEN {"XSample", "NumberOfFeatures"}
    ELSE IF X = "DataFrameFlat" THEN {"NumberOfFeatures"}
    ELSE {}

\* on the dataset "DataFrameRaise" the function preprocess raises
Raises(f, X) == f = "preprocess" /\ X = "DataFrameRaise"

\* the values _init_resources caches for the six inputs
InputValue(n, a) ==
    CASE n = "XRaw" -> (CASE a.X = "DataFrameNaN" -> 101
                         [] a.X = "DataFrameFlat" -> 102 [] OTHER -> 100)
      [] n = "X" -> (CASE a.X = "DataFrameNaN" -> 111
                      [] a.X = "DataFrameFlat" -> 112 [] OTHER -> 110)
      [] n = "Y" -> (CASE a.Y = "None" -> None [] a.Y = "Cat" -> 120
                       [] a.Y = "CatSmall" -> 121 [] a.Y = "Num" -> 122
                       [] OTHER -> 123)
      [] n = "ColumnTypes" ->
            IF YName \in DOMAIN a.column_types.map
               /\ a.column_types.map[YName] = NUMERIC THEN 131 ELSE 130
      [] n = "sample_shape" ->
            IF a.sample_shape.v[1] = None THEN 140 ELSE 140 + a.sample_shape.v[1]
      [] n = "n_folds" -> a.n_folds.tenths

RECURSIVE WeightedSum(_, _)
WeightedSum(vs, k) ==
    IF k > Len(vs) THEN 0 ELSE k * vs[k] + WeightedSum(vs, k + 1)

\* position of a name in a list of names (0 when absent)
IndexOf(rs, n) ==
    IF \E k \in 1..Len(rs) : rs[k] = n
    THEN CHOOSE k \in 1..Len(rs) : rs[k] = n /\ \A j \in 1..(k - 1) : rs[j] # n
    ELSE 0

\* what function f gives for its j-th output on arguments vs
OutputValue(f, j, vs) == (WeightedSum(vs, 1) * 4 + j) % 1000

\* the tuple eval(f)(*parameters) returns; get_seed is line 194.
\* outs names the outputs the function produces, in order.
Invoke(f, outs, vs, X, base, offset) ==
    IF f = "self._get_seed" THEN <<base + offset>>
    ELSE [j \in 1..(IF f = "split_pair" THEN 1 ELSE Len(outs)) |->
            IF outs[j] \in NanOutputs(X) THEN NaN ELSE OutputValue(f, j, vs)]

(***************************************************************************)
(* State.                                                                  *)
(***************************************************************************)
Callers == {1, 2}

VARIABLES
    resources,    \* self._resources: the session cache, name -> Entry
    seed,         \* self.seed: the base seed
    seed_offset,  \* self.seed_offset: the active offset
    pc,           \* per caller: where its compute call stands
    args,         \* per caller: the arguments of its compute call
    stack,        \* per caller: the _get_resource/_get_parameters frames
    i,            \* per caller: index into metafeature_ids of the for loop
    computed,     \* per caller: computed_metafeatures
    err,          \* per caller: the exception compute raised
    log,          \* per caller: producing-function invocations of this call
    elapsed,      \* per caller: what end - start measures during this call
    calls,        \* compute calls started on the object
    last,         \* arguments and result of the call that has just returned
    prev          \* result of the call before, when this call repeats it

vars == <<resources, seed, seed_offset, pc, args, stack, i, computed, err,
          log, elapsed, calls, last, prev>>

object == <<resources, seed, seed_offset>>

NoArgs ==
    [X |-> "DataFrame", Y |-> "None",
     column_types |-> [given |-> FALSE, map |-> <<>>],
     metafeature_ids |-> [given |-> FALSE, ids |-> <<>>],
     sample_shape |-> [kind |-> "None", v |-> <<>>],
     seed |-> None,
     n_folds |-> [numeric |-> TRUE, tenths |-> 20]]

NoResult == [ok |-> FALSE, args |-> NoArgs, result |-> <<>>]

\* names a caller may ask for: unknown ones, an intermediate resource and
\* metafeatures
IdNames == {"Foo", "Bar", "seed", "NumberOfInstances", "NumberOfFeatures",
            "NaiveBayesErrRate"}

IdLists == UNION {[1..n -> IdNames] : n \in 0..MaxIds}

\* calls that differ in what the evaluator sees
EvalArgs ==
    {[NoArgs EXCEPT !.X = x, !.Y = y, !.seed = sd,
                    !.metafeature_ids = [given |-> TRUE, ids |-> ids]] :
        x \in {"DataFrame", "DataFrameNaN"}, y \in {"None", "Cat", "Num"},
        sd \in {None, 7}, ids \in IdLists}

\* calls that differ in what the validators see
ValidatorArgs ==
    {[NoArgs EXCEPT !.X = x, !.Y = y, !.seed = 7] :
        x \in {"DataFrame", "ndarray"},
        y \in {"None", "ndarray", "CatSmall", "NumCont"}}
    \cup
    {[NoArgs EXCEPT !.Y = y, !.seed = 7, !.column_types = [given |-> TRUE, map |-> m]] :
        y \in {"None", "Cat"},
        m \in {[c \in {"f1", "f2"} |-> NUMERIC],
               [c \in {"f1", "f2", "target"} |-> CATEGORICAL],
               [c \in {"f1", "f2", "target"} |-> IF c = "target" THEN NUMERIC ELSE CATEGORICAL],
               [c \in {"f1", "f2", "other"} |-> NUMERIC],
               [c \in {"f1", "other"} |-> NUMERIC],
               [c \in {"f1", "f2", "target"} |-> IF c = "f1" THEN "NUMBER" ELSE NUMERIC]}}
    \cup
    {[NoArgs EXCEPT !.Y = y, !.seed = 7, !.sample_shape = s, !.n_folds = nf,
                    !.metafeature_ids = [given |-> TRUE, ids |-> <<"NumberOfInstances">>]] :
        y \in {"None", "Cat"},
        s \in {[kind |-> "None", v |-> <<>>], [kind |-> "other", v |-> <<>>],
               [kind |-> "tuple", v |-> <<4>>], [kind |-> "tuple", v |-> <<0, None>>],
               [kind |-> "tuple", v |-> <<None, 0>>], [kind |-> "tuple", v |-> <<3, None>>],
               [kind |-> "tuple", v |-> <<4, 1>>]},
        nf \in {[numeric |-> TRUE, tenths |-> 20], [numeric |-> TRUE, tenths |-> 10],
                [numeric |-> TRUE, tenths |-> 25], [numeric |-> FALSE, tenths |-> 0]}}
    \cup
    {[NoArgs EXCEPT !.Y = y, !.seed = 7, !.n_folds = nf,
                    !.metafeature_ids = [given |-> TRUE, ids |-> ids]] :
        y \in {"Cat", "CatSmall", "NumCont"},
        nf \in {[numeric |-> TRUE, tenths |-> 20], [numeric |-> TRUE, tenths |-> 40]},
        ids \in {<<"NumberOfInstances">>, <<"NumberOfInstances", "NaiveBayesErrRate">>,
                 <<"NaiveBayesKappa">>}}
    \cup
    {[NoArgs EXCEPT !.Y = "Cat", !.seed = 7,
                    !.n_folds = [numeric |-> TRUE, tenths |-> 40]]}
    \cup
    {[NoArgs EXCEPT !.X = x, !.Y = "Cat", !.seed = 7,
                    !.metafeature_ids = [given |-> TRUE, ids |-> ids]] :
        x \in {"DataFrame", "ndarray"},
        ids \in {<<"Foo", "Bar", "NumberOfInstances", "NumberOfFeatures">>,
                 <<"NumberOfInstances", "NumberOfFeatures", "Foo", "Bar">>,
                 <<"Foo", "NumberOfInstances", "Bar">>}}

\* calls that ask for resources whose registry entry is malformed
RegistryArgs ==
    {[NoArgs EXCEPT !.Y = "Cat", !.seed = 7,
                    !.metafeature_ids = [given |-> TRUE, ids |-> ids]] :
        ids \in {<<"Orphan">>, <<"PairA">>, <<"PairB">>,
                 <<"NumberOfInstances", "PairB">>, <<"CycleA">>,
                 <<"NumberOfInstances", "CycleB">>, <<"Quantile">>,
                 <<"NumberOfInstances", "Width">>}}

\* calls on a dataset for which get_stats returns np.nan as NumberOfFeatures
\* while the sample itself is computable
MarkerArgs ==
    {[NoArgs EXCEPT !.X = "DataFrameFlat", !.Y = y, !.seed = 7,
                    !.metafeature_ids = [given |-> TRUE, ids |-> ids]] :
        y \in {"None", "Cat"},
        ids \in {<<"Ratio">>, <<"Ratio", "XPreprocessed">>,
                 <<"NumberOfInstances", "Ratio">>}}

\* calls on a dataset for which a producing function raises
FailingArgs ==
    {[NoArgs EXCEPT !.X = "DataFrameRaise", !.Y = "Cat", !.seed = 7,
                    !.metafeature_ids = [given |-> TRUE, ids |-> ids]] :
        ids \in {<<"NaiveBayesErrRate">>, <<"NumberOfInstances", "NaiveBayesErrRate">>,
                 <<"NumberOfInstances">>}}

\* what a later call on the same object is made with, unless it repeats
\* the arguments of the call before it
FollowArgs ==
    {[NoArgs EXCEPT !.Y = "Cat", !.seed = 7,
                    !.metafeature_ids = [given |-> TRUE, ids |-> ids]] :
        ids \in {<<"seed", "NumberOfInstances">>,
                 <<"NumberOfInstances", "NaiveBayesErrRate">>,
                 <<"Foo">>}}
    \cup {[NoArgs EXCEPT !.seed = 8], [NoArgs EXCEPT !.X = "ndarray"],
          [NoArgs EXCEPT !.Y = "CatSmall", !.seed = 9]}

\* the arguments the n-th call on the object may be made with (n counts
\* from 0; before is the arguments of the call before it)
ArgChoices(n, before) ==
    IF n = 0
    THEN EvalArgs \cup ValidatorArgs \cup RegistryArgs \cup MarkerArgs
         \cup FailingArgs
    ELSE FollowArgs \cup {before}

Init ==
    /\ resources = <<>>
    /\ seed = Unset
    /\ seed_offset = Unset
    /\ pc = [c \in Callers |-> IF c = 1 THEN "idle" ELSE "off"]
    /\ args = [c \in Callers |-> NoArgs]
    /\ stack = [c \in Callers |-> <<>>]
    /\ i = [c \in Callers |-> 0]
    /\ computed = [c \in Callers |-> <<>>]
    /\ err = [c \in Callers |-> NoErr]
    /\ log = [c \in Callers |-> <<>>]
    /\ elapsed = [c \in Callers |-> 0]
    /\ calls = 0
    /\ last = NoResult
    /\ prev = NoResult

(***************************************************************************)
(* compute, lines 100-115: both validation passes, then _init_resources.   *)
(***************************************************************************)
Raise(c, e) ==
    /\ pc' = [pc EXCEPT ![c] = "raised"]
    /\ err' = [err EXCEPT ![c] = e]
    /\ stack' = [stack EXCEPT ![c] = <<>>]

\* the exception the two passes of _validate_compute_arguments raise for
\* the arguments a (NoErr when both pass)
ValidationError(a) ==
    IF validate_compute_arguments(a) # NoErr
    THEN validate_compute_arguments(a)
    ELSE validate_compute_arguments(WithDefaults(a))

\* faulty variant: _set_seed runs before the arguments are validated
ComputeBeginSeedFirst(c) ==
    /\ pc[c] \in {"idle", "done", "raised"}
    /\ calls < MaxCalls
    /\ \E a \in ArgChoices(calls, args[c]) :
         /\ args' = [args EXCEPT ![c] = a]
         /\ prev' = IF last.ok /\ last.args = a THEN last ELSE NoResult
         /\ \E s \in (IF a.seed = None THEN RandomSeeds ELSE {a.seed}) : seed' = s
         /\ IF ValidationError(a) # NoErr
            THEN Raise(c, ValidationError(a))
            ELSE /\ pc' = [pc EXCEPT ![c] = "init"]
                 /\ err' = [err EXCEPT ![c] = NoErr]
                 /\ stack' = [stack EXCEPT ![c] = <<>>]
    /\ calls' = calls + 1
    /\ i' = [i EXCEPT ![c] = 0]
    /\ computed' = [computed EXCEPT ![c] = <<>>]
    /\ log' = [log EXCEPT ![c] = <<>>]
    /\ last' = NoResult
    /\ UNCHANGED <<resources, seed_offset, elapsed>>

\* a caller enters compute with arguments a; validation raises or passes
ComputeBegin(c) ==
    /\ pc[c] \in {"idle", "done", "raised"}
    /\ calls < MaxCalls
    /\ \E a \in ArgChoices(calls, args[c]) :
         /\ args' = [args EXCEPT ![c] = a]
         /\ prev' = IF last.ok /\ last.args = a THEN last ELSE NoResult
         /\ IF ValidationError(a) # NoErr
            THEN Raise(c, ValidationError(a))
            ELSE /\ pc' = [pc EXCEPT ![c] = "init"]
                 /\ err' = [err EXCEPT ![c] = NoErr]
                 /\ stack' = [stack EXCEPT ![c] = <<>>]
    /\ calls' = calls + 1
    /\ i' = [i EXCEPT ![c] = 0]
    /\ computed' = [computed EXCEPT ![c] = <<>>]
    /\ log' = [log EXCEPT ![c] = <<>>]
    /\ last' = NoResult
    /\ UNCHANGED <<resources, seed, seed_offset, elapsed>>

\* the cache _init_resources builds from the (default-filled) arguments
\* faulty variant: the six inputs are written into the cache of the call
\* before instead of a new dict
InitialResourcesKept(a) ==
    [n \in InputNames \cup DOMAIN resources |->
        IF n \in InputNames THEN Entry(InputValue(n, WithDefaults(a)), 0)
        ELSE resources[n]]

InitialResources(a) ==
    [n \in InputNames |-> Entry(InputValue(n, WithDefaults(a)), 0)]

\* _init_resources: _set_seed, then a fresh cache holding the six inputs
InitResources(c) ==
    /\ pc[c] = "init"
    /\ \E s \in (IF args[c].seed = None THEN RandomSeeds ELSE {args[c].seed}) :
         seed' = s
    /\ resources' = InitialResources(args[c])
    /\ \E t \in ElapsedTimes : elapsed' = [elapsed EXCEPT ![c] = t]
    /\ pc' = [pc EXCEPT ![c] = "loop"]
    /\ i' = [i EXCEPT ![c] = 1]
    /\ UNCHANGED <<seed_offset, args, stack, computed, err, log, calls, last, prev>>

(***************************************************************************)
(* compute, lines 117-135: the loop over metafeature_ids.                  *)
(***************************************************************************)
Ids(c) == WithDefaults(args[c]).metafeature_ids.ids

\* faulty variant: only a missing target is gated, a numeric one is resolved
GateTargetMissingOnly(a, metafeature_id) ==
    LET td == is_target_dependent(metafeature_id)
    IN  IF td \notin {"T", "F"} THEN td
        ELSE IF td = "F" THEN "resolve"
        ELSE IF a.Y = "None" THEN "NO_TARGETS"
        ELSE "resolve"

\* the branch the loop body takes for metafeature_id under arguments a:
\* an exception, a sentinel, or "resolve" (the call of _get_resource)
Gate(a, metafeature_id) ==
    LET td == is_target_dependent(metafeature_id)
        ct == WithDefaults(a).column_types.map
    IN  IF td \notin {"T", "F"} THEN td
        ELSE IF td = "F" THEN "resolve"
        ELSE IF a.Y = "None" THEN "NO_TARGETS"
        ELSE IF YName \notin DOMAIN ct THEN "KeyError"
        ELSE IF ct[YName] = NUMERIC THEN "NUMERIC_TARGETS"
        ELSE "resolve"

\* faulty variant: a gated id is reported with compute time 0.
GatedEntryZeroTime(g) ==
    Entry(IF g = "NO_TARGETS" THEN NO_TARGETS ELSE NUMERIC_TARGETS, 0)

\* the entry compute stores for a gated id
GatedEntry(g) ==
    Entry(IF g = "NO_TARGETS" THEN NO_TARGETS ELSE NUMERIC_TARGETS, None)

\* _get_parameters up to the loop: the offset assignment, and the frame
Frame(r) == [name |-> r, k |-> 1, vals |-> <<>>, total |-> 0, failed |-> FALSE]

OffsetAfterEnter(r, cur) ==
    IF DeclaredOffset(r) # Unset THEN DeclaredOffset(r) ELSE cur

\* faulty variant: a gated id ends the loop: compute returns what it has so far
LoopGatedReturns(c) ==
    /\ pc[c] = "loop"
    /\ i[c] <= Len(Ids(c))
    /\ Gate(args[c], Ids(c)[i[c]]) \in {"NO_TARGETS", "NUMERIC_TARGETS"}
    /\ computed' = [computed EXCEPT ![c] =
           (Ids(c)[i[c]] :> GatedEntry(Gate(args[c], Ids(c)[i[c]]))) @@ @]
    /\ pc' = [pc EXCEPT ![c] = "done"]
    /\ last' = [ok |-> TRUE, args |-> args[c], result |-> computed'[c]]
    /\ UNCHANGED <<resources, seed, seed_offset, args, stack, i, err, log,
                   elapsed, calls, prev>>

\* faulty variant: a gated id is resolved all the same
LoopGatedResolving(c) ==
    /\ pc[c] = "loop"
    /\ i[c] <= Len(Ids(c))
    /\ Gate(args[c], Ids(c)[i[c]]) \in {"NO_TARGETS", "NUMERIC_TARGETS"}
    /\ Ids(c)[i[c]] \notin DOMAIN resources
    /\ stack' = [stack EXCEPT ![c] = <<Frame(Ids(c)[i[c]])>>]
    /\ seed_offset' = OffsetAfterEnter(Ids(c)[i[c]], seed_offset)
    /\ pc' = [pc EXCEPT ![c] = "resolve"]
    /\ UNCHANGED <<resources, seed, args, i, computed, err, log, elapsed,
                   calls, last, prev>>

\* the loop body for a gated id: a sentinel is stored, nothing is resolved
LoopGated(c) ==
    /\ pc[c] = "loop"
    /\ i[c] <= Len(Ids(c))
    /\ Gate(args[c], Ids(c)[i[c]]) \in {"NO_TARGETS", "NUMERIC_TARGETS"}
    /\ computed' = [computed EXCEPT ![c] =
           (Ids(c)[i[c]] :> GatedEntry(Gate(args[c], Ids(c)[i[c]]))) @@ @]
    /\ i' = [i EXCEPT ![c] = @ + 1]
    /\ UNCHANGED <<resources, seed, seed_offset, pc, args, stack, err, log,
                   elapsed, calls, last, prev>>

\* the loop body when the gate condition itself raises
LoopRaise(c) ==
    /\ pc[c] = "loop"
    /\ i[c] <= Len(Ids(c))
    /\ Gate(args[c], Ids(c)[i[c]]) \in {"KeyError", "RecursionError"}
    /\ Raise(c, Err(Gate(args[c], Ids(c)[i[c]]), "", <<>>))
    /\ UNCHANGED <<resources, seed, seed_offset, args, i, computed, log,
                   elapsed, calls, last, prev>>

\* the loop body calling _get_resource for an id already in the cache
LoopCached(c) ==
    /\ pc[c] = "loop"
    /\ i[c] <= Len(Ids(c))
    /\ Gate(args[c], Ids(c)[i[c]]) = "resolve"
    /\ Ids(c)[i[c]] \in DOMAIN resources
    /\ computed' = [computed EXCEPT ![c] =
           (Ids(c)[i[c]] :> resources[Ids(c)[i[c]]]) @@ @]
    /\ i' = [i EXCEPT ![c] = @ + 1]
    /\ UNCHANGED <<resources, seed, seed_offset, pc, args, stack, err, log,
                   elapsed, calls, last, prev>>

\* the loop body calling _get_resource for an id not in the cache:
\* _get_parameters starts (the seed offset is assigned)
LoopResolve(c) ==
    /\ pc[c] = "loop"
    /\ i[c] <= Len(Ids(c))
    /\ Gate(args[c], Ids(c)[i[c]]) = "resolve"
    /\ Ids(c)[i[c]] \notin DOMAIN resources
    /\ stack' = [stack EXCEPT ![c] = <<Frame(Ids(c)[i[c]])>>]
    /\ seed_offset' = OffsetAfterEnter(Ids(c)[i[c]], seed_offset)
    /\ pc' = [pc EXCEPT ![c] = "resolve"]
    /\ UNCHANGED <<resources, seed, args, i, computed, err, log, elapsed,
                   calls, last, prev>>

\* return computed_metafeatures
Return(c) ==
    /\ pc[c] = "loop"
    /\ i[c] > Len(Ids(c))
    /\ pc' = [pc EXCEPT ![c] = "done"]
    /\ last' = [ok |-> TRUE, args |-> args[c], result |-> computed[c]]
    /\ UNCHANGED <<resources, seed, seed_offset, args, stack, i, computed, err,
                   log, elapsed, calls, prev>>

(***************************************************************************)
(* The evaluator: _get_resource (lines 318-343) and _get_parameters        *)
(* (lines 345-368).  A frame is one _get_resource call that missed the     *)
(* cache, inside its _get_parameters loop: k is the next parameter, vals   *)
(* is retrieved_parameters, failed says it was set to None by the break.   *)
(***************************************************************************)
Top(c) == stack[c][Len(stack[c])]

SetTop(c, fr) == [stack EXCEPT ![c] = [@ EXCEPT ![Len(@)] = fr]]

InLoop(c) ==
    /\ pc[c] = "resolve"
    /\ ~Top(c).failed
    /\ Top(c).k <= Len(ParametersOf(Top(c).name))

Param(c) == ParametersOf(Top(c).name)[Top(c).k]

\* a numeric parameter is used as it is, at no cost
UseLiteral(c) ==
    /\ InLoop(c)
    /\ Param(c).lit
    /\ stack' = SetTop(c, [Top(c) EXCEPT !.vals = Append(@, Param(c).val),
                                         !.k = @ + 1])
    /\ UNCHANGED <<resources, seed, seed_offset, pc, args, i, computed, err,
                   log, elapsed, calls, last, prev>>

\* faulty variant: the marker is not tested for: it is passed on as an argument
ConsumeIgnoringMarker(fr, e) ==
    [fr EXCEPT !.vals = Append(@, e.value),
               !.total = @ + (IF e.compute_time = NaN THEN 0 ELSE e.compute_time),
               !.k = @ + 1]

\* faulty variant: the marker ends the loop only when it is the value of the
\* last parameter; before that the loop goes on to the next parameter
ConsumeMarkerLate(fr, e) ==
    IF e.value = NaN /\ fr.k = Len(ParametersOf(fr.name))
    THEN [fr EXCEPT !.failed = TRUE]
    ELSE [fr EXCEPT !.vals = Append(@, e.value),
                    !.total = @ + (IF e.compute_time = NaN THEN 0 ELSE e.compute_time),
                    !.k = @ + 1]

\* faulty variant: a parameter whose value is None counts as uncomputable too
ConsumeNoneAsMarker(fr, e) ==
    IF e.value \in {NaN, None}
    THEN [fr EXCEPT !.failed = TRUE]
    ELSE [fr EXCEPT !.vals = Append(@, e.value),
                    !.total = @ + e.compute_time,
                    !.k = @ + 1]

\* faulty variant: the time of a cached parameter is not added
ConsumeUntimed(fr, e) ==
    IF e.value = NaN
    THEN [fr EXCEPT !.failed = TRUE]
    ELSE [fr EXCEPT !.vals = Append(@, e.value),
                    !.k = @ + 1]

\* faulty variant: the value is put in front of retrieved_parameters
ConsumeReversed(fr, e) ==
    IF e.value = NaN
    THEN [fr EXCEPT !.failed = TRUE]
    ELSE [fr EXCEPT !.vals = <<e.value>> \o @,
                    !.total = @ + e.compute_time,
                    !.k = @ + 1]

\* the frame after _get_resource(parameter) gave the cached entry e:
\* the marker ends the loop, anything else is appended and its time added
Consume(fr, e) ==
    IF e.value = NaN
    THEN [fr EXCEPT !.failed = TRUE]
    ELSE [fr EXCEPT !.vals = Append(@, e.value),
                    !.total = @ + e.compute_time,
                    !.k = @ + 1]

\* a parameter found in the cache (an input, or a resource resolved before)
UseCached(c) ==
    /\ InLoop(c)
    /\ ~Param(c).lit
    /\ Param(c).name \in DOMAIN resources
    /\ stack' = SetTop(c, Consume(Top(c), resources[Param(c).name]))
    /\ UNCHANGED <<resources, seed, seed_offset, pc, args, i, computed, err,
                   log, elapsed, calls, last, prev>>

\* a parameter not in the cache: the recursive _get_resource call begins
CallResource(c) ==
    /\ InLoop(c)
    /\ ~Param(c).lit
    /\ Param(c).name \notin DOMAIN resources
    /\ IF Param(c).name \notin Names
       THEN Raise(c, Err("KeyError", Param(c).name, <<>>))
            /\ UNCHANGED seed_offset
       ELSE IF Len(stack[c]) > Cardinality(Names)
       THEN Raise(c, Err("RecursionError", "", <<>>))
            /\ UNCHANGED seed_offset
       ELSE /\ stack' = [stack EXCEPT ![c] = Append(@, Frame(Param(c).name))]
            /\ seed_offset' = OffsetAfterEnter(Param(c).name, seed_offset)
            /\ UNCHANGED <<pc, err>>
    /\ UNCHANGED <<resources, seed, args, i, computed, log, elapsed, calls,
                   last, prev>>

Min(x, y) == IF x < y THEN x ELSE y

\* faulty variant: only the first declared output is cached
StoreResultsFirstOnly(cache, returns, results, total_time) ==
    IF Len(returns) = 0 \/ Len(results) = 0 THEN cache
    ELSE [name \in DOMAIN cache \cup {returns[1]} |->
             IF name = returns[1] THEN Entry(results[1], total_time)
             ELSE cache[name]]

\* faulty variant: only the requested (first) output carries the time of the call
StoreResultsOwnTimes(cache, returns, results, total_time) ==
    LET n == Min(Len(returns), Len(results))
        written == {returns[j] : j \in 1..n}
    IN  [name \in DOMAIN cache \cup written |->
            IF name \in written
            THEN Entry(results[CHOOSE j \in 1..n : returns[j] = name],
                       IF name = returns[1] THEN total_time ELSE 0)
            ELSE cache[name]]

\* faulty variant: the loop stops one pair short
StoreResultsLastDropped(cache, returns, results, total_time) ==
    LET n == Min(Len(returns), Len(results)) - 1
        written == {returns[j] : j \in 1..n}
    IN  [name \in DOMAIN cache \cup written |->
            IF name \in written
            THEN Entry(results[CHOOSE j \in 1..n : returns[j] = name], total_time)
            ELSE cache[name]]

\* the loop over zip(returns, results): each name gets its result and the
\* one total_time (a later pair overwrites an earlier one of the same name)
StoreResults(cache, returns, results, total_time) ==
    LET n == Min(Len(returns), Len(results))
        written == {returns[j] : j \in 1..n}
    IN  [name \in DOMAIN cache \cup written |->
            IF name \in written
            THEN Entry(results[CHOOSE j \in 1..n :
                                 /\ returns[j] = name
                                 /\ \A h \in (j + 1)..n : returns[h] # name],
                       total_time)
            ELSE cache[name]]

\* lines 341-343 and the return to the caller, with the cache as written
Finish(c, cache) ==
    /\ resources' = cache
    /\ IF Top(c).name \notin DOMAIN cache
       THEN Raise(c, Err("KeyError", Top(c).name, <<>>))
            /\ UNCHANGED <<i, computed>>
       ELSE IF Len(stack[c]) = 1
       THEN /\ stack' = [stack EXCEPT ![c] = <<>>]
            /\ computed' = [computed EXCEPT ![c] =
                   (Top(c).name :> cache[Top(c).name]) @@ @]
            /\ i' = [i EXCEPT ![c] = @ + 1]
            /\ pc' = [pc EXCEPT ![c] = "loop"]
            /\ UNCHANGED err
       ELSE /\ stack' = [stack EXCEPT ![c] = SubSeq(@, 1, Len(@) - 1)]
            /\ UNCHANGED <<pc, err, i, computed>>

\* faulty variant: only the requested name is cached as uncomputable
UncomputableRequestedOnly(c) ==
    /\ pc[c] = "resolve"
    /\ Top(c).failed
    /\ Finish(c, StoreResults(resources, <<Top(c).name>>, <<NaN>>, NaN))
    /\ UNCHANGED <<seed, seed_offset, args, log, elapsed, calls, last, prev>>

\* parameters is None: every declared output gets the marker, time NaN, and
\* the producing function is not called
Uncomputable(c) ==
    /\ pc[c] = "resolve"
    /\ Top(c).failed
    /\ Finish(c, StoreResults(resources, ReturnsOf(Top(c).name),
                              [j \in 1..Len(ReturnsOf(Top(c).name)) |-> NaN], NaN))
    /\ UNCHANGED <<seed, seed_offset, args, log, elapsed, calls, last, prev>>

\* one record of log: the function called for resource name, what it was
\* given, and the offset that resource declares
Invocation(r, vs) ==
    [name |-> r, function |-> resource_info[r].function, vals |-> vs,
     returns |-> ReturnsOf(r), offset |-> DeclaredOffset(r)]

\* faulty variant: an exception of the producing function is caught and the
\* outputs are stored as uncomputable
InvokeFunctionCatching(c) ==
    /\ pc[c] = "resolve"
    /\ ~Top(c).failed
    /\ Top(c).k > Len(ParametersOf(Top(c).name))
    /\ IF resource_info[Top(c).name].function = "self._get_seed"
          /\ seed_offset = Unset
       THEN /\ Raise(c, Err("AttributeError", "seed_offset", <<>>))
            /\ UNCHANGED <<resources, i, computed, log>>
       ELSE IF resource_info[Top(c).name].function \notin Callable
       THEN /\ Raise(c, Err("NameError", resource_info[Top(c).name].function, <<>>))
            /\ UNCHANGED <<resources, i, computed, log>>
       ELSE IF Raises(resource_info[Top(c).name].function, args[c].X)
       THEN /\ Finish(c, StoreResults(resources, ReturnsOf(Top(c).name),
                           [j \in 1..Len(ReturnsOf(Top(c).name)) |-> NaN], NaN))
            /\ UNCHANGED log
       ELSE /\ Finish(c, StoreResults(resources, ReturnsOf(Top(c).name),
                           Invoke(resource_info[Top(c).name].function,
                                  ReturnsOf(Top(c).name), Top(c).vals,
                                  args[c].X, seed, seed_offset),
                           Top(c).total + elapsed[c]))
            /\ log' = [log EXCEPT ![c] =
                         Append(@, Invocation(Top(c).name, Top(c).vals))]
    /\ UNCHANGED <<seed, seed_offset, args, elapsed, calls, last, prev>>

\* all parameters retrieved: the producing function is called and timed,
\* and its results are cached
InvokeFunction(c) ==
    /\ pc[c] = "resolve"
    /\ ~Top(c).failed
    /\ Top(c).k > Len(ParametersOf(Top(c).name))
    /\ IF resource_info[Top(c).name].function = "self._get_seed"
          /\ seed_offset = Unset
       THEN /\ Raise(c, Err("AttributeError", "seed_offset", <<>>))
            /\ UNCHANGED <<resources, i, computed, log>>
       ELSE IF resource_info[Top(c).name].function \notin Callable
       THEN /\ Raise(c, Err("NameError", resource_info[Top(c).name].function, <<>>))
            /\ UNCHANGED <<resources, i, computed, log>>
       ELSE IF Raises(resource_info[Top(c).name].function, args[c].X)
       THEN /\ Raise(c, Err("RuntimeError", resource_info[Top(c).name].function, <<>>))
            /\ UNCHANGED <<resources, i, computed, log>>
       ELSE /\ Finish(c, StoreResults(resources, ReturnsOf(Top(c).name),
                           Invoke(resource_info[Top(c).name].function,
                                  ReturnsOf(Top(c).name), Top(c).vals,
                                  args[c].X, seed, seed_offset),
                           Top(c).total + elapsed[c]))
            /\ log' = [log EXCEPT ![c] =
                         Append(@, Invocation(Top(c).name, Top(c).vals))]
    /\ UNCHANGED <<seed, seed_offset, args, elapsed, calls, last, prev>>

Step(c) ==
    \/ ComputeBegin(c)
    \/ InitResources(c)
    \/ LoopGated(c)
    \/ LoopRaise(c)
    \/ LoopCached(c)
    \/ LoopResolve(c)
    \/ Return(c)
    \/ UseLiteral(c)
    \/ UseCached(c)
    \/ CallResource(c)
    \/ Uncomputable(c)
    \/ InvokeFunction(c)

Next == \E c \in Callers : Step(c)

Spec == Init /\ [][Next]_vars

(***************************************************************************)
(* One compute call on a new object, run to its end: compute is sequential *)
(* code, so a call that can take a step takes it.                          *)
(***************************************************************************)
FirstBegin(c) == calls = 0 /\ ComputeBegin(c)

StepFair(c) ==
    \/ FirstBegin(c)
    \/ InitResources(c)
    \/ LoopGated(c)
    \/ LoopRaise(c)
    \/ LoopCached(c)
    \/ LoopResolve(c)
    \/ Return(c)
    \/ UseLiteral(c)
    \/ UseCached(c)
    \/ CallResource(c)
    \/ Uncomputable(c)
    \/ InvokeFunction(c)

NextFair == \E c \in Callers : StepFair(c)

SpecFair == Init /\ [][NextFair]_vars /\ WF_vars(NextFair)

(***************************************************************************)
(* Two callers on one object.  compute keeps its session in the instance   *)
(* attributes _resources, seed and seed_offset, so two calls that overlap  *)
(* work on the same three variables; each caller makes one call, and the   *)
(* steps of the two interleave.                                            *)
(***************************************************************************)
ConcurrentArgs(c) ==
    IF c = 1
    THEN {[NoArgs EXCEPT !.Y = "Cat", !.seed = 7,
                         !.metafeature_ids =
                            [given |-> TRUE,
                             ids |-> <<"NumberOfInstances", "NaiveBayesErrRate">>]],
          [NoArgs EXCEPT !.Y = "Cat", !.seed = 7,
                         !.column_types =
                            [given |-> TRUE,
                             map |-> [col \in {"f1", "f2", "other"} |-> NUMERIC]],
                         !.metafeature_ids =
                            [given |-> TRUE, ids |-> <<"NumberOfClasses">>]]}
    ELSE {[NoArgs EXCEPT !.X = "DataFrameNaN", !.seed = 8,
                         !.metafeature_ids =
                            [given |-> TRUE,
                             ids |-> <<"NumberOfInstances", "NumberOfFeatures",
                                       "NaiveBayesErrRate">>]],
          [NoArgs EXCEPT !.X = "ndarray"]}

InitConcurrent ==
    /\ resources = <<>>
    /\ seed = Unset
    /\ seed_offset = Unset
    /\ pc = [c \in Callers |-> "idle"]
    /\ args = [c \in Callers |-> NoArgs]
    /\ stack = [c \in Callers |-> <<>>]
    /\ i = [c \in Callers |-> 0]
    /\ computed = [c \in Callers |-> <<>>]
    /\ err = [c \in Callers |-> NoErr]
    /\ log = [c \in Callers |-> <<>>]
    /\ elapsed = [c \in Callers |-> 0]
    /\ calls = 0
    /\ last = NoResult
    /\ prev = NoResult

\* a caller enters compute while the other caller may be inside it
ConcurrentBegin(c) ==
    /\ pc[c] = "idle"
    /\ \E a \in ConcurrentArgs(c) :
         /\ args' = [args EXCEPT ![c] = a]
         /\ IF ValidationError(a) # NoErr
            THEN Raise(c, ValidationError(a))
            ELSE /\ pc' = [pc EXCEPT ![c] = "init"]
                 /\ err' = [err EXCEPT ![c] = NoErr]
                 /\ stack' = [stack EXCEPT ![c] = <<>>]
    /\ calls' = calls + 1
    /\ i' = [i EXCEPT ![c] = 0]
    /\ computed' = [computed EXCEPT ![c] = <<>>]
    /\ log' = [log EXCEPT ![c] = <<>>]
    /\ UNCHANGED <<resources, seed, seed_offset, elapsed, last, prev>>

StepConcurrent(c) ==
    \/ ConcurrentBegin(c)
    \/ InitResources(c)
    \/ LoopGated(c)
    \/ LoopRaise(c)
    \/ LoopCached(c)
    \/ LoopResolve(c)
    \/ Return(c)
    \/ UseLiteral(c)
    \/ UseCached(c)
    \/ CallResource(c)
    \/ Uncomputable(c)
    \/ InvokeFunction(c)

NextConcurrent == \E c \in Callers : StepConcurrent(c)

SpecConcurrent == InitConcurrent /\ [][NextConcurrent]_vars

(***************************************************************************)
(* One compute call that asks for Summary, whose declared returns list     *)
(* holds a name another entry produces as well.                            *)
(***************************************************************************)
OverlapArgs ==
    {[NoArgs EXCEPT !.X = x, !.Y = y, !.seed = 7,
                    !.metafeature_ids = [given |-> TRUE, ids |-> ids]] :
        x \in {"DataFrame", "DataFrameNaN"}, y \in {"None", "Cat"},
        ids \in {<<"NumberOfInstances", "Summary">>,
                 <<"Summary", "NumberOfInstances", "NumberOfFeatures">>,
                 <<"NumberOfInstances", "NaiveBayesErrRate", "Summary">>}}
    \cup
    {[NoArgs EXCEPT !.Y = "Cat", !.seed = 7,
                    !.column_types =
                       [given |-> TRUE,
                        map |-> [col \in {"f1", "f2", "other"} |-> NUMERIC]],
                    !.metafeature_ids =
                       [given |-> TRUE, ids |-> <<"Summary", "NumberOfClasses">>]]}

OverlapBegin(c) ==
    /\ calls = 0
    /\ pc[c] = "idle"
    /\ \E a \in OverlapArgs :
         /\ args' = [args EXCEPT ![c] = a]
         /\ IF ValidationError(a) # NoErr
            THEN Raise(c, ValidationError(a))
            ELSE /\ pc' = [pc EXCEPT ![c] = "init"]
                 /\ err' = [err EXCEPT ![c] = NoErr]
                 /\ stack' = [stack EXCEPT ![c] = <<>>]
    /\ calls' = calls + 1
    /\ i' = [i EXCEPT ![c] = 0]
    /\ computed' = [computed EXCEPT ![c] = <<>>]
    /\ log' = [log EXCEPT ![c] = <<>>]
    /\ UNCHANGED <<resources, seed, seed_offset, elapsed, last, prev>>

StepOverlap(c) ==
    \/ OverlapBegin(c)
    \/ InitResources(c)
    \/ LoopGated(c)
    \/ LoopRaise(c)
    \/ LoopCached(c)
    \/ LoopResolve(c)
    \/ Return(c)
    \/ UseLiteral(c)
    \/ UseCached(c)
    \/ CallResource(c)
    \/ Uncomputable(c)
    \/ InvokeFunction(c)

NextOverlap == \E c \in Callers : StepOverlap(c)

SpecOverlap == Init /\ [][NextOverlap]_vars

(***************************************************************************)
(* Properties.                                                             *)
(***************************************************************************)
\* the invocations of caller c's current call whose declared outputs
\* include name n
Yielding(c, n) == {k \in 1..Len(log[c]) : n \in Range(log[c][k].returns)}

\* the resource names among the parameters the evaluator follows for r
ParamNames(r) ==
    IF r \in Names
    THEN {ParametersOf(r)[k].name : k \in {j \in 1..Len(ParametersOf(r)) :
                                             ~ParametersOf(r)[j].lit}}
    ELSE {}

RECURSIVE Reach(_, _)
Reach(S, fuel) ==
    IF fuel = 0 THEN S
    ELSE Reach(S \cup UNION {ParamNames(r) : r \in S}, fuel - 1)

\* the resources each registry entry depends on, directly or transitively
Dependencies == [r \in Names |-> Reach(ParamNames(r), Cardinality(Names))]

DependsOn(r) == Dependencies[r]

IsSentinel(v) == v \in {NO_TARGETS, NUMERIC_TARGETS}

\* C1: within one compute call, at most one producing-function invocation
\* yields any given resource name, whatever the requested list (duplicates
\* and shared dependencies included).
C1_InvokedAtMostOnce ==
    \A c \in Callers : \A n \in Names : Cardinality(Yielding(c, n)) <= 1

\* C1 witness: a finished call that asked for two metafeatures sharing
\* XSample and seed, each of which was produced by exactly one invocation
C1_Witness ==
    \E c \in Callers :
        /\ pc[c] = "done"
        /\ {"NumberOfInstances", "NaiveBayesErrRate"} \subseteq DOMAIN computed[c]
        /\ computed[c]["NumberOfInstances"].value >= 0
        /\ computed[c]["NaiveBayesErrRate"].value >= 0
        /\ Cardinality(Yielding(c, "XSample")) = 1
        /\ Cardinality(Yielding(c, "seed")) = 1

\* C2: if A depends (directly or transitively) on B and B is cached with
\* the uncomputable marker, then A, once cached or reported, holds the
\* marker too and no invocation of this call has produced A.
C2_MarkerPropagates ==
    \A c \in Callers : \A A \in Names \cap DOMAIN resources :
        \A B \in DependsOn(A) \cap DOMAIN resources :
            resources[B].value = NaN =>
                /\ resources[A].value = NaN
                /\ Yielding(c, A) = {}
                /\ (A \in DOMAIN computed[c] /\ ~IsSentinel(computed[c][A].value)
                      => computed[c][A].value = NaN)

\* C2 witness: XSample came back as the marker and NaiveBayesErrRate, which
\* reaches it through XPreprocessed, was requested and reported as the marker
C2_Witness ==
    \E c \in Callers :
        /\ pc[c] = "done"
        /\ "XSample" \in DOMAIN resources
        /\ resources["XSample"].value = NaN
        /\ "NaiveBayesErrRate" \in DOMAIN computed[c]
        /\ computed[c]["NaiveBayesErrRate"].value = NaN

\* the loop of caller c stands before a requested id that the analyzer
\* flags, with no target or a target typed NUMERIC
GatingCase(c) ==
    /\ pc[c] = "loop"
    /\ i[c] <= Len(Ids(c))
    /\ is_target_dependent(Ids(c)[i[c]]) = "T"
    /\ \/ args[c].Y = "None"
       \/ /\ YName \in DOMAIN WithDefaults(args[c]).column_types.map
          /\ WithDefaults(args[c]).column_types.map[YName] = NUMERIC

Computable(c, r) ==
    /\ r \notin NanOutputs(args[c].X)
    /\ \A B \in DependsOn(r) \cap DOMAIN resources : resources[B].value # NaN

\* C5: when compute returns, the result has exactly one entry (value and
\* compute time) per distinct requested name; a gated name holds its
\* sentinel, every other name holds what the evaluator cached for it, and
\* that is a computed value whenever the name is computable, wherever
\* gated or uncomputable names stand in the list.
C5_OneEntryPerRequestedName ==
    \A c \in Callers :
        pc[c] = "done" =>
            /\ DOMAIN computed[c] = Range(Ids(c))
            /\ \A n \in Range(Ids(c)) :
                  /\ DOMAIN computed[c][n] = {VALUE_KEY, COMPUTE_TIME_KEY}
                  /\ Gate(args[c], n) = "NO_TARGETS"
                        => computed[c][n].value = NO_TARGETS
                  /\ Gate(args[c], n) = "NUMERIC_TARGETS"
                        => computed[c][n].value = NUMERIC_TARGETS
                  /\ Gate(args[c], n) = "resolve"
                        => /\ n \in DOMAIN resources
                           /\ computed[c][n] = resources[n]
                           /\ Computable(c, n) => computed[c][n].value >= 0

\* C5 witness: a returned call whose first id was gated and whose second
\* id got a computed value
C5_Witness ==
    \E c \in Callers :
        /\ pc[c] = "done"
        /\ Len(Ids(c)) = 2
        /\ Ids(c)[1] # Ids(c)[2]
        /\ computed[c][Ids(c)[1]].value = NO_TARGETS
        /\ computed[c][Ids(c)[2]].value >= 0

\* C6: after an invocation of a function that returns what its entry
\* declares and whose declared returns list has more than one name, all
\* those names are cached with one and the same compute time, no further
\* invocation yields any of them, and a request for any of them reports
\* that time.
C6_SharedOutputTime ==
    \A c \in Callers : \A k \in 1..Len(log[c]) :
        (Len(log[c][k].returns) > 1 /\ WellFormedEntry(log[c][k].name)) =>
            \A n \in Range(log[c][k].returns) : \A m \in Range(log[c][k].returns) :
                /\ n \in DOMAIN resources
                /\ m \in DOMAIN resources
                /\ resources[n].compute_time = resources[m].compute_time
                /\ Yielding(c, n) = {k}
                /\ (n \in DOMAIN computed[c] /\ ~IsSentinel(computed[c][n].value))
                      => computed[c][n].compute_time = resources[m].compute_time

\* C6 witness: NumberOfInstances and NumberOfFeatures, the two outputs of
\* one get_stats call, were both requested and report the same positive time
C6_Witness ==
    \E c \in Callers :
        /\ pc[c] = "done"
        /\ {"NumberOfInstances", "NumberOfFeatures"} \subseteq DOMAIN computed[c]
        /\ Cardinality(Yielding(c, "NumberOfFeatures")) = 1
        /\ computed[c]["NumberOfInstances"].compute_time > 0
        /\ computed[c]["NumberOfInstances"].compute_time
              = computed[c]["NumberOfFeatures"].compute_time

\* C7: a compute call with a fixed seed that repeats the arguments of the
\* call before it on the same object returns the same value for every
\* requested name.
C7_RepeatedCallSameValues ==
    \A c \in Callers :
        (pc[c] = "done" /\ prev.ok /\ args[c].seed # None) =>
            /\ DOMAIN computed[c] = DOMAIN prev.result
            /\ \A n \in DOMAIN computed[c] :
                  computed[c][n].value = prev.result[n].value

\* the parameters of r that are produced by _get_seed
SeedPositions(r) ==
    {j \in 1..Len(ParametersOf(r)) :
        /\ ~ParametersOf(r)[j].lit
        /\ ParametersOf(r)[j].name \in Names
        /\ resource_info[ParametersOf(r)[j].name].function = "self._get_seed"}

\* C8: every producing function invoked for a resource that declares seed
\* offset o (itself or through its function) receives base seed + o as its
\* derived seed.
C8_SeedIsBasePlusOffset ==
    \A c \in Callers : \A k \in 1..Len(log[c]) :
        log[c][k].offset # Unset =>
            \A j \in SeedPositions(log[c][k].name) :
                log[c][k].vals[j] = seed + log[c][k].offset

\* the requested names that are not in the registry
UnknownIds(a) ==
    IF a.metafeature_ids.given
    THEN {n \in Range(a.metafeature_ids.ids) : n \notin Names}
    ELSE {}

\* C9: a call whose X, Y and column types pass their checks and whose
\* requested names include unknown ones raises one ValueError whose message
\* starts with the fixed text and names every unknown id, wherever they
\* stand in the list.
C9_AllInvalidIdsReported ==
    \A c \in Callers :
        (/\ pc[c] \notin {"idle", "off"}
         /\ UnknownIds(args[c]) # {}
         /\ IsDataFrame(args[c].X)
         /\ (IsSeries(args[c].Y) \/ args[c].Y = "None")
         /\ validate_column_types(args[c]) = NoErr)
        => /\ pc[c] = "raised"
           /\ err[c].type = "ValueError"
           /\ err[c].msg = "One or more requested metafeatures are not valid:"
           /\ Range(err[c].names) = UnknownIds(args[c])

\* C9 witness: the request of the test, two unknown names after two valid
\* ones, was rejected naming both
C9_Witness ==
    \E c \in Callers :
        /\ pc[c] = "raised"
        /\ args[c].metafeature_ids.ids =
              <<"NumberOfInstances", "NumberOfFeatures", "Foo", "Bar">>
        /\ Range(err[c].names) = {"Foo", "Bar"}

\* C10: the step in which compute raises from _validate_compute_arguments
\* leaves the cache, the base seed and the seed offset of the object as
\* they were, and no producing function has been invoked by that call.
C10_ValidationTouchesNothing ==
    [][\A c \in Callers :
          (calls' = calls + 1 /\ pc'[c] = "raised")
          => /\ resources' = resources
             /\ seed' = seed
             /\ seed_offset' = seed_offset
             /\ log'[c] = <<>>]_vars

\* C10 witness: on an object that already holds a session, a call passed
\* the first validation pass and was rejected by the second
C10_Witness ==
    \E c \in Callers :
        /\ pc[c] = "raised"
        /\ calls >= 2
        /\ DOMAIN resources # {}
        /\ seed # Unset
        /\ validate_compute_arguments(args[c]) = NoErr
        /\ err[c] = validate_compute_arguments(WithDefaults(args[c]))
        /\ err[c].type = "ValueError"

\* the arguments pass every validator that runs before _validate_n_folds,
\* in both passes, and n_folds is an integer of at least 2
ReachesClassCheck(a) ==
    /\ validate_X(a) = NoErr
    /\ validate_Y(a) = NoErr
    /\ validate_column_types(a) = NoErr
    /\ validate_metafeature_ids(a) = NoErr
    /\ validate_sample_shape(a) = NoErr
    /\ validate_sample_shape(WithDefaults(a)) = NoErr
    /\ a.n_folds.numeric
    /\ a.n_folds.tenths % 10 = 0
    /\ a.n_folds.tenths >= 20

\* the classes of Y with fewer than n_folds rows
SmallClasses(a) ==
    {k \in 1..Len(YGroups(a.Y)) : YGroups(a.Y)[k] * 10 < a.n_folds.tenths}

ClassSizeMessage == "The minimum number of instances in each class of Y is n_folds"

\* C11: with a target present, compute raises the ValueError about an
\* undersized class exactly when a landmarking name (ErrRate or Kappa) is
\* among the requested names, or among all metafeatures when none were
\* given, and some class of Y has fewer than n_folds rows; the error names
\* such a class.
C11_ClassSizeCheck ==
    \A c \in Callers :
        (pc[c] \notin {"idle", "off"} /\ IsSeries(args[c].Y)
            /\ ReachesClassCheck(args[c]))
        => /\ (pc[c] = "raised" /\ err[c].msg = ClassSizeMessage)
                <=> (/\ \E n \in Range(Ids(c)) : HasErrRateOrKappa(n)
                     /\ SmallClasses(args[c]) # {})
           /\ (pc[c] = "raised" /\ err[c].msg = ClassSizeMessage)
                => /\ err[c].type = "ValueError"
                   /\ \E k \in SmallClasses(args[c]) :
                          err[c].names = <<YClasses(args[c].Y)[k]>>

\* C11 witness: no names were given, so the first pass let the call
\* through and the second, on all metafeatures, rejected the class of 1 row
C11_Witness ==
    \E c \in Callers :
        /\ pc[c] = "raised"
        /\ ~args[c].metafeature_ids.given
        /\ args[c].Y = "CatSmall"
        /\ err[c].msg = ClassSizeMessage
        /\ err[c].names = <<"a">>

\* C11 witness of the other side: a class of 1 row, no landmarking name
\* requested, and compute returned
C11_NoLandmarkingWitness ==
    \E c \in Callers :
        /\ pc[c] = "done"
        /\ args[c].Y = "CatSmall"
        /\ args[c].metafeature_ids.ids = <<"NumberOfInstances">>

\* the arguments pass the validators that run before _validate_sample_shape,
\* sample_shape is a pair and n_folds is a number
ReachesBoundsCheck(a) ==
    /\ validate_X(a) = NoErr
    /\ validate_Y(a) = NoErr
    /\ validate_column_types(a) = NoErr
    /\ validate_metafeature_ids(a) = NoErr
    /\ a.sample_shape.kind = "tuple"
    /\ Len(a.sample_shape.v) = 2
    /\ a.n_folds.numeric

BelowOne(b) == b # None /\ b < 1

RowsFromYMessage == "Cannot sample less than min_samples rows from Y"

SampleShapeMessages ==
    {"Cannot sample less than one row", "Cannot sample less than 1 column",
     RowsFromYMessage}

\* C12: a given row or column bound below 1 always raises a ValueError;
\* otherwise, with a target and a row bound, compute raises the ValueError
\* about the rows of Y exactly when the bound is smaller than the number of
\* classes of Y times n_folds, and with no target _validate_sample_shape
\* raises nothing.
C12_RowBoundCheck ==
    \A c \in Callers :
        LET a == args[c]
            rows == a.sample_shape.v[1]
            cols == a.sample_shape.v[2]
        IN  (pc[c] \notin {"idle", "off"} /\ ReachesBoundsCheck(a)) =>
               IF BelowOne(rows) \/ BelowOne(cols)
               THEN /\ pc[c] = "raised"
                    /\ err[c].type = "ValueError"
                    /\ err[c].msg = (IF BelowOne(rows)
                                     THEN "Cannot sample less than one row"
                                     ELSE "Cannot sample less than 1 column")
               ELSE IF a.Y # "None" /\ rows # None
               THEN /\ (pc[c] = "raised" /\ err[c].msg = RowsFromYMessage)
                          <=> rows * 10 < Len(YClasses(a.Y)) * a.n_folds.tenths
                    /\ (pc[c] = "raised" /\ err[c].msg = RowsFromYMessage)
                          => err[c].type = "ValueError"
               ELSE ~(pc[c] = "raised" /\ err[c].msg \in SampleShapeMessages)

\* C12 witness: a row bound of 3 with two classes and n_folds = 2 was
\* rejected
C12_Witness ==
    \E c \in Callers :
        /\ pc[c] = "raised"
        /\ args[c].Y = "Cat"
        /\ args[c].sample_shape.v = <<3, None>>
        /\ args[c].n_folds.tenths = 20
        /\ err[c].msg = RowsFromYMessage

\* C13: a call whose target is numeric and which is valid with the target
\* left out is not rejected by the validators, and when it returns every
\* requested target-dependent name, landmarking ones included, is reported
\* as NUMERIC_TARGETS.
C13_NumericTargetIsSoft ==
    \A c \in Callers :
        LET a == args[c]
        IN  (/\ pc[c] \notin {"idle", "off"}
             /\ YIsNumeric(a.Y)
             /\ ~a.column_types.given
             /\ ValidationError([a EXCEPT !.Y = "None"]) = NoErr)
            => /\ ValidationError(a) = NoErr
               /\ pc[c] = "done" =>
                     \A n \in Range(Ids(c)) :
                         is_target_dependent(n) = "T"
                            => computed[c][n].value = NUMERIC_TARGETS

\* the keys a column-type map must have: the feature columns of X, and the
\* name of the target when one is given
ExpectedColumns(a) == XColumns \cup (IF a.Y = "None" THEN {} ELSE {YName})

\* C14: a call with X and Y of the right types and a supplied column-type
\* map whose keys are not exactly the expected columns, or one of whose types
\* is neither NUMERIC nor CATEGORICAL, raises a ValueError and has invoked
\* no producing function.
C14_OnlyExactMapsAccepted ==
    \A c \in Callers :
        LET a == args[c]
            m == a.column_types.map
        IN  (/\ pc[c] \notin {"idle", "off"}
             /\ validate_X(a) = NoErr
             /\ validate_Y(a) = NoErr
             /\ a.column_types.given
             /\ \/ DOMAIN m # ExpectedColumns(a)
                \/ \E col \in DOMAIN m : m[col] \notin {NUMERIC, CATEGORICAL})
            => /\ pc[c] = "raised"
               /\ err[c].type = "ValueError"
               /\ log[c] = <<>>

C16_MalformedNeverResolved ==
    \A c \in Callers : \A k \in 1..Len(stack[c]) :
        WellFormedEntry(stack[c][k].name)

\* caller c is about to call the producing function of the resource on top
\* of its stack, and that function raises
FunctionRaises(c) ==
    /\ pc[c] = "resolve"
    /\ stack[c] # <<>>
    /\ ~Top(c).failed
    /\ Top(c).k > Len(ParametersOf(Top(c).name))
    /\ resource_info[Top(c).name].function \in Callable
    /\ Raises(resource_info[Top(c).name].function, args[c].X)

\* C17: the step in which a producing function raises ends compute with
\* that error: nothing is returned, and the cache gets neither the failing
\* resource nor any resource whose resolution was under way.
C17_FunctionErrorPropagates ==
    [][\A c \in Callers :
          (FunctionRaises(c) /\ (pc'[c] # pc[c] \/ stack'[c] # stack[c]))
          => /\ pc'[c] = "raised"
             /\ err'[c].type = "RuntimeError"
             /\ resources' = resources
             /\ \A k \in 1..Len(stack[c]) :
                   stack[c][k].name \notin DOMAIN resources'
             /\ computed'[c] = computed[c]
             /\ last' = last]_vars

\* C17 witness: preprocess raised while NaiveBayesErrRate was resolved;
\* XSample, computed before, is cached, XPreprocessed and NaiveBayesErrRate
\* are not
C17_Witness ==
    \E c \in Callers :
        /\ pc[c] = "raised"
        /\ err[c].type = "RuntimeError"
        /\ "XSample" \in DOMAIN resources
        /\ "XPreprocessed" \notin DOMAIN resources
        /\ "NaiveBayesErrRate" \notin DOMAIN resources
        /\ "NumberOfInstances" \in DOMAIN computed[c]

\* the value _init_resources caches for input n of caller c's call, written
\* out from the arguments after compute filled in the defaults
OwnInput(c, n) ==
    LET a == args[c]
    IN  CASE n = "XRaw" -> (CASE a.X = "DataFrameNaN" -> 101
                         [] a.X = "DataFrameFlat" -> 102 [] OTHER -> 100)
          [] n = "X" -> (CASE a.X = "DataFrameNaN" -> 111
                      [] a.X = "DataFrameFlat" -> 112 [] OTHER -> 110)
          [] n = "Y" -> (CASE a.Y = "None" -> None [] a.Y = "Cat" -> 120
                           [] a.Y = "CatSmall" -> 121 [] a.Y = "Num" -> 122
                           [] OTHER -> 123)
          [] n = "ColumnTypes" ->
                IF (a.column_types.given /\ YName \in DOMAIN a.column_types.map
                      /\ a.column_types.map[YName] = NUMERIC)
                   \/ (~a.column_types.given /\ YIsNumeric(a.Y))
                THEN 131 ELSE 130
          [] n = "sample_shape" ->
                IF a.sample_shape.kind = "None" \/ a.sample_shape.v[1] = None
                THEN 140 ELSE 140 + a.sample_shape.v[1]
          [] n = "n_folds" -> a.n_folds.tenths

\* C18: the step with which a validated compute call starts its session
\* leaves a cache of exactly the six inputs of that call, each with compute
\* time 0; and at every moment every other cached name was stored by this
\* call (yielded by one of its invocations, or marked uncomputable), and
\* every reported value that is not a sentinel is that cached entry.
C18_NoCrossCallReuse ==
    [][\A c \in Callers :
          /\ (pc[c] = "init" /\ pc'[c] # "init") =>
                /\ DOMAIN resources' = InputNames
                /\ \A n \in InputNames :
                      /\ resources'[n].compute_time = 0
                      /\ resources'[n].value = OwnInput(c, n)
          /\ pc'[c] \in {"loop", "resolve", "done"} =>
                /\ \A n \in DOMAIN resources' \ InputNames :
                      \/ \E k \in 1..Len(log'[c]) : n \in Range(log'[c][k].returns)
                      \/ resources'[n].value = NaN
                /\ \A n \in DOMAIN computed'[c] :
                      ~IsSentinel(computed'[c][n].value) =>
                          /\ n \in DOMAIN resources'
                          /\ computed'[c][n] = resources'[n]]_vars

\* C18 witness: a later call on an object whose earlier call resolved
\* resources stands at the start of its loop with only the six inputs cached
C18_Witness ==
    \E c \in Callers :
        /\ pc[c] = "loop"
        /\ i[c] = 1
        /\ calls >= 2
        /\ seed_offset # Unset
        /\ DOMAIN resources = InputNames
        /\ Len(Ids(c)) > 0

\* C19: while a caller is inside its session, the cache it reads holds the
\* six inputs of its own call and the base seed is the one its own call set.
C19_SessionsIsolated ==
    \A c \in Callers :
        pc[c] \in {"loop", "resolve"} =>
            /\ \A n \in InputNames :
                  /\ n \in DOMAIN resources
                  /\ resources[n].value = OwnInput(c, n)
            /\ args[c].seed # None => seed = args[c].seed

\* the names in the own parameter list of r and in the parameter list its
\* function declares
AllParamNames(r) ==
    LET info == resource_info[r]
        own  == IF "parameters" \in info.keys THEN info.parameters ELSE <<>>
        decl == functions[info.function].parameters
    IN  {own[k].name : k \in {j \in 1..Len(own) : ~own[j].lit}}
        \cup {decl[k].name : k \in {j \in 1..Len(decl) : ~decl[j].lit}}

RECURSIVE GrowTargetDependent(_, _)
GrowTargetDependent(S, fuel) ==
    IF fuel = 0 THEN S
    ELSE GrowTargetDependent(
             S \cup {r \in Names \ {"XSample"} : AllParamNames(r) \cap S # {}},
             fuel - 1)

\* the names the rule makes target-dependent: Y, and every name other than
\* XSample one of whose parameters is target-dependent
RuleTargetDependent == GrowTargetDependent({"Y"}, Cardinality(Names) + 1)

\* C20: _is_target_dependent answers True exactly for the names the rule
\* makes target-dependent and False for XSample; it answers True or False
\* for every metafeature id, and list_metafeatures of the group
\* target_dependent is exactly the metafeature ids with answer True; and
\* the loop of compute gates only such names and reports a sentinel only
\* for them.
C20_TargetDependence ==
    /\ \A n \in Names \cup {"Y", "XSample"} :
          /\ n \in Range(IDS) => is_target_dependent(n) \in {"T", "F"}
          /\ is_target_dependent(n) = "T" <=> n \in RuleTargetDependent
    /\ is_target_dependent("XSample") = "F"
    /\ Range(target_dependent_mfs) = Range(IDS) \cap RuleTargetDependent
    /\ \A c \in Callers :
          /\ (pc[c] = "loop" /\ i[c] <= Len(Ids(c))) =>
                (Gate(args[c], Ids(c)[i[c]]) \in {"NO_TARGETS", "NUMERIC_TARGETS"}
                    => Ids(c)[i[c]] \in RuleTargetDependent)
          /\ \A n \in DOMAIN computed[c] :
                IsSentinel(computed[c][n].value) <=>
                    (n \in RuleTargetDependent
                       /\ (args[c].Y = "None" \/ YIsNumeric(args[c].Y)
                           \/ (args[c].column_types.given
                               /\ YName \in DOMAIN args[c].column_types.map
                               /\ args[c].column_types.map[YName] = NUMERIC)))

\* C20 witness: with no target, the loop gated NaiveBayesErrRate, which
\* reaches Y through YSample, and resolved NumberOfInstances, which reaches
\* only XSample
C20_Witness ==
    \E c \in Callers :
        /\ pc[c] = "done"
        /\ args[c].Y = "None"
        /\ {"NaiveBayesErrRate", "NumberOfInstances"} \subseteq DOMAIN computed[c]
        /\ computed[c]["NaiveBayesErrRate"].value = NO_TARGETS
        /\ computed[c]["NumberOfInstances"].value >= 0

\* caller c's step is a producing-function call (the invocation log grows)
Invokes(c) == Len(log'[c]) = Len(log[c]) + 1

\* C21: when a producing function is called for a resource, every
\* non-literal parameter of the resource is in the cache, and the arguments
\* are, in declared order, the literal itself or the cached value of the
\* parameter, none of them the uncomputable marker.
C21_ArgumentsResolved ==
    [][\A c \in Callers :
          Invokes(c) =>
             LET r  == Top(c).name
                 ps == ParametersOf(r)
                 vs == log'[c][Len(log'[c])].vals
             IN  /\ log'[c][Len(log'[c])].name = r
                 /\ Len(vs) = Len(ps)
                 /\ \A k \in 1..Len(ps) :
                       IF ps[k].lit THEN vs[k] = ps[k].val
                       ELSE /\ ps[k].name \in DOMAIN resources
                            /\ resources[ps[k].name].value = vs[k]
                            /\ vs[k] # NaN]_vars

\* C21 witness: run_pipeline was called for NaiveBayesErrRate with its four
\* arguments, the third being the literal 3
C21_Witness ==
    \E c \in Callers : \E k \in 1..Len(log[c]) :
        /\ log[c][k].name = "NaiveBayesErrRate"
        /\ Len(log[c][k].vals) = 4
        /\ log[c][k].vals[3] = 3
        /\ {"XPreprocessed", "YSample", "seed"} \subseteq DOMAIN resources

\* caller c's step ends a _get_resource call whose parameters came back None
FoundUncomputable(c) ==
    /\ pc[c] = "resolve"
    /\ Top(c).failed
    /\ stack'[c] # stack[c]

\* C22: the step that finds a resource uncomputable caches every name of
\* its declared returns list with the marker as value and NaN as compute
\* time and calls no function; such an entry stays as it is for the rest of
\* the call, and a later request of the loop for that name reports it.
C22_UncomputableOutputsCached ==
    [][\A c \in Callers :
          /\ FoundUncomputable(c) =>
                /\ \A n \in Range(ReturnsOf(Top(c).name)) :
                      /\ n \in DOMAIN resources'
                      /\ resources'[n] = Entry(NaN, NaN)
                /\ log'[c] = log[c]
          /\ \A n \in DOMAIN resources :
                (resources[n] = Entry(NaN, NaN) /\ pc[c] \in {"loop", "resolve"}) =>
                   /\ n \in DOMAIN resources'
                   /\ resources'[n] = Entry(NaN, NaN)
                   /\ (pc[c] = "loop" /\ i[c] <= Len(Ids(c)) /\ Ids(c)[i[c]] = n
                       /\ i'[c] = i[c] + 1
                       /\ Gate(args[c], n) = "resolve")
                      => /\ n \in DOMAIN computed'[c]
                         /\ computed'[c][n] = Entry(NaN, NaN)
                         /\ log'[c] = log[c]]_vars

\* C22 witness: NumberOfInstances was found uncomputable (XSample is the
\* marker), and the later request for its co-output NumberOfFeatures
\* reported the cached marker without any call of get_stats
C22_Witness ==
    \E c \in Callers :
        /\ pc[c] = "done"
        /\ Ids(c) = <<"NumberOfInstances", "NumberOfFeatures">>
        /\ {"NumberOfInstances", "NumberOfFeatures"} \subseteq DOMAIN computed[c]
        /\ computed[c]["NumberOfInstances"] = Entry(NaN, NaN)
        /\ computed[c]["NumberOfFeatures"] = Entry(NaN, NaN)
        /\ Yielding(c, "NumberOfFeatures") = {}

\* the requested names of caller c's call that the loop does not gate
Resolved(c) ==
    {Ids(c)[k] : k \in {j \in 1..Len(Ids(c)) :
                          Gate(args[c], Ids(c)[j]) = "resolve"}}

\* those names and everything reachable from them through the parameter
\* lists _get_parameters follows
Closure(c) ==
    Resolved(c) \cup UNION {Dependencies[r] : r \in Resolved(c) \cap Names}

\* caller c is inside the evaluation part of compute, or has returned from it
Evaluating(c) == pc[c] \in {"loop", "resolve", "done"}

\* C23 as stated: a function is invoked only for a resource of the closure,
\* and a cached name outside the closure is one of the six inputs or a
\* declared output of an invocation that took place.
C23_LazyInvokedCoOutputs ==
    \A c \in Callers :
        Evaluating(c) =>
            /\ \A k \in 1..Len(log[c]) : log[c][k].name \in Closure(c)
            /\ \A n \in DOMAIN resources \ Closure(c) :
                  \/ n \in InputNames
                  \/ Yielding(c, n) # {}

\* C23 (amended): a function is invoked only for a resource of the closure,
\* and a cached name outside the closure is one of the six inputs, a
\* declared output of an invocation that took place, or a declared output
\* of a closure resource that was found uncomputable (cached as the marker
\* with time NaN, no function invoked).
C23_Lazy ==
    \A c \in Callers :
        Evaluating(c) =>
            /\ \A k \in 1..Len(log[c]) : log[c][k].name \in Closure(c)
            /\ \A n \in DOMAIN resources \ Closure(c) :
                  \/ n \in InputNames
                  \/ Yielding(c, n) # {}
                  \/ /\ resources[n] = Entry(NaN, NaN)
                     /\ \E r \in Closure(c) \cap Names :
                           /\ n \in Range(ReturnsOf(r))
                           /\ r \in DOMAIN resources
                           /\ resources[r] = Entry(NaN, NaN)

\* C23 witness: only NumberOfInstances was asked for; its co-output
\* NumberOfFeatures is cached, and nothing was done for XPreprocessed, seed
\* or the landmarking metafeatures
C23_Witness ==
    \E c \in Callers :
        /\ pc[c] = "done"
        /\ Ids(c) = <<"NumberOfInstances">>
        /\ args[c].X = "DataFrame"
        /\ "NumberOfFeatures" \in DOMAIN resources
        /\ "NumberOfFeatures" \notin Closure(c)
        /\ DOMAIN resources \cap {"XPreprocessed", "NaiveBayesErrRate"} = {}
        /\ \A k \in 1..Len(log[c]) : log[c][k].name \in {"NumberOfInstances", "XSample", "seed"}

\* the sum, over the parameters ps[k..], of what each contributes to
\* total_time: 0. for a literal, the cached compute time for a resource
RECURSIVE ParameterTimes(_, _, _)
ParameterTimes(ps, k, cache) ==
    IF k > Len(ps) THEN 0
    ELSE (IF ps[k].lit THEN 0 ELSE cache[ps[k].name].compute_time)
         + ParameterTimes(ps, k + 1, cache)

\* C24: the compute time cached by a producing-function call is the sum of
\* the cached compute times of the resource's non-literal parameters (each
\* counted once per occurrence, whether or not it was computed for another
\* resource before) plus the elapsed time of the call; literals add nothing
\* and the six inputs are cached with time 0.
C24_CumulativeTime ==
    [][\A c \in Callers :
          /\ Invokes(c) =>
                LET r == Top(c).name
                IN  /\ \A n \in DOMAIN resources' :
                          resources'[n] # (IF n \in DOMAIN resources
                                           THEN resources[n] ELSE <<>>)
                          => resources'[n].compute_time =
                                ParameterTimes(ParametersOf(r), 1, resources)
                                  + elapsed[c]
                    /\ \E n \in Range(ReturnsOf(r)) : n \in DOMAIN resources'
          /\ pc'[c] \in {"loop", "resolve"} =>
                \A n \in InputNames :
                    n \in DOMAIN resources' /\ resources'[n].compute_time = 0]_vars

\* C24 witness: with every call taking 1, seed is cached with time 1,
\* XSample and YSample with 2, XPreprocessed with 4 and NaiveBayesErrRate
\* with 4 + 2 + 0 + 1 + 1 = 8: the time of seed is counted in each of them
C24_Witness ==
    \E c \in Callers :
        /\ elapsed[c] = 1
        /\ pc[c] = "done"
        /\ {"seed", "XSample", "YSample", "XPreprocessed", "NaiveBayesErrRate"}
              \subseteq DOMAIN resources
        /\ resources["seed"].compute_time = 1
        /\ resources["YSample"].compute_time = 2
        /\ resources["XPreprocessed"].compute_time = 4
        /\ resources["NaiveBayesErrRate"].compute_time = 8

\* the name the loop of compute called _get_resource for
Root(c) == stack[c][1].name

\* n and the registered names n depends on
Below(n) == ({n} \cup Dependencies[n]) \cap Names

\* no name that the resolution of n reaches is its own dependency
Acyclic(n) == \A r \in Below(n) : r \notin Dependencies[r]

\* every registered name below n is in its own declared returns list
InOwnReturns(n) == \A r \in Below(n) : r \in Range(ReturnsOf(r))

\* nothing the resolution of n meets raises: every parameter is registered
\* or an input, every function exists, gives as many results as the entry
\* declares and does not raise on the dataset X, and a seed offset is
\* assigned before _get_seed reads it
NothingRaises(n, X) ==
    /\ Dependencies[n] \subseteq Names \cup InputNames
    /\ \A r \in Below(n) :
          /\ WellFormedEntry(r)
          /\ ~Raises(resource_info[r].function, X)
          /\ "seed" \in ParamNames(r) => DeclaredOffset(r) # Unset
    /\ n = "seed" => seed_offset # Unset

NoMarkerReturned(c) == NanOutputs(args[c].X) = {}

\* C26: while no producing function returns the marker, no cache entry
\* holds it as value or as compute time, whether the target is given,
\* missing or numeric, and no gating sentinel is cached either; and whenever
\* the evaluator finds a resource uncomputable, one of its parameters is
\* cached with the marker.
C26_MarkerOnlyFromDependency ==
    [][\A c \in Callers :
          /\ FoundUncomputable(c) =>
                \E k \in 1..Len(ParametersOf(Top(c).name)) :
                    LET p == ParametersOf(Top(c).name)[k]
                    IN  /\ ~p.lit
                        /\ p.name \in DOMAIN resources
                        /\ resources[p.name].value = NaN
          /\ (Evaluating(c)' /\ NoMarkerReturned(c)') =>
                \A n \in DOMAIN resources' :
                    /\ resources'[n].value # NaN
                    /\ resources'[n].compute_time # NaN
                    /\ ~IsSentinel(resources'[n].value)]_vars

\* C26 witness: a call without target on a dataset where nothing returns
\* the marker: NaiveBayesErrRate was gated, NumberOfInstances was computed
\* from the sample taken with Y None, and the cache holds no marker
C26_Witness ==
    \E c \in Callers :
        /\ pc[c] = "done"
        /\ args[c].Y = "None"
        /\ NoMarkerReturned(c)
        /\ resources["Y"].value = None
        /\ Ids(c) = <<"NaiveBayesErrRate", "NumberOfInstances">>
        /\ computed[c]["NaiveBayesErrRate"].value = NO_TARGETS
        /\ {"XSample", "YSample", "NumberOfInstances"} \subseteq DOMAIN resources
        /\ \A n \in DOMAIN resources : resources[n].value # NaN

\* C27: while caller c is in the loop or in a resolution, a step leaves
\* every cache entry as it is: a name that has an entry, the six inputs
\* included, keeps its value and its compute time.
C27_WriteOnce ==
    [][\A c \in Callers :
          pc[c] \in {"loop", "resolve"} =>
             \A n \in DOMAIN resources :
                 /\ n \in DOMAIN resources'
                 /\ resources'[n] = resources[n]]_vars

\* C28: whatever registered name the loop of compute stands at, the call
\* of _is_target_dependent it makes for that name answers True or False;
\* it does not raise.
C28_AnalyzerNeverRaises ==
    \A c \in Callers :
        (pc[c] = "loop" /\ i[c] <= Len(Ids(c)))
        => is_target_dependent(Ids(c)[i[c]]) \in {"T", "F"}

\* caller c's step takes the next parameter of the frame on top, by a cache
\* hit or by a recursive _get_resource call
FollowsParameter(c) ==
    /\ InLoop(c)
    /\ ~Param(c).lit
    /\ stack'[c] # stack[c]

\* C29: every parameter the evaluator takes for a resource is in one of the
\* two lists the analyzer scans for that resource; and while a requested
\* name the analyzer answers False for is being resolved, the only frame
\* that takes Y as a parameter is that of XSample, and every other frame is
\* of a name the analyzer answers False for and takes only inputs other
\* than Y and resources the analyzer answers False for.
C29_AnalyzerCoversEvaluator ==
    [][\A c \in Callers :
          FollowsParameter(c) =>
             /\ Param(c).name \in AllParamNames(Top(c).name)
             /\ is_target_dependent(Root(c)) = "F" =>
                   /\ Param(c).name = "Y" => Top(c).name = "XSample"
                   /\ Top(c).name # "XSample" =>
                         /\ is_target_dependent(Top(c).name) = "F"
                         /\ Param(c).name \in Names
                               => is_target_dependent(Param(c).name) = "F"]_vars

\* C29 witness: NumberOfInstances, not flagged, is being resolved with a
\* target given; the frame of XSample has taken Y
C29_Witness ==
    \E c \in Callers :
        /\ pc[c] = "resolve"
        /\ args[c].Y = "Cat"
        /\ Root(c) = "NumberOfInstances"
        /\ is_target_dependent(Root(c)) = "F"
        /\ Top(c).name = "XSample"
        /\ Top(c).k = 2
        /\ Top(c).vals = <<resources["Y"].value>>

\* the parameters of the frame on top that the loop of _get_parameters has
\* gone past
Taken(c) ==
    {ParametersOf(Top(c).name)[j] : j \in 1..(Top(c).k - 1)}

\* C30: the loop of _get_parameters takes a parameter, and the function is
\* called, only while none of the parameters before it is cached with the
\* marker; and once a parameter resolved to the marker, the next step of
\* that resolution caches the declared outputs of the resource and nothing
\* else, invokes nothing and opens no further frame.
C30_BreakAtMarker ==
    [][\A c \in Callers :
          /\ (FollowsParameter(c) \/ Invokes(c)) =>
                \A p \in Taken(c) :
                    ~p.lit => resources[p.name].value # NaN
          /\ (pc[c] = "resolve" /\ Top(c).failed /\ stack'[c] # stack[c]) =>
                /\ log'[c] = log[c]
                /\ Len(stack'[c]) < Len(stack[c])
                /\ DOMAIN resources' =
                      DOMAIN resources \cup Range(ReturnsOf(Top(c).name))]_vars

\* C30 witness: NumberOfFeatures, the first parameter of Ratio, is the
\* marker although the sample is computable; Ratio was cached as
\* uncomputable and its second parameter XPreprocessed was never resolved
C30_Witness ==
    \E c \in Callers :
        /\ pc[c] = "done"
        /\ Ids(c) = <<"Ratio">>
        /\ computed[c]["Ratio"] = Entry(NaN, NaN)
        /\ resources["XSample"].value >= 0
        /\ resources["NumberOfFeatures"].value = NaN
        /\ "XPreprocessed" \notin DOMAIN resources
        /\ \A k \in 1..Len(log[c]) : log[c][k].function # "preprocess"

====
